---- MODULE Spec2Model ----
(***************************************************************************)
(* A model of the repository synchronisation handlers of polarity:         *)
(* POST /api/repositories (submit) and POST /api/repositories/:o/:r/sync   *)
(* (apps/api/src/routes/repositories/routes.ts), with the metadata table   *)
(* (D1), the blob store (R2), the source API and the embedding provider    *)
(* as the handlers use them.  Every await of a handler is a step, so that  *)
(* concurrent handler instances interleave exactly where the code yields.  *)
(***************************************************************************)
EXTENDS Integers, Sequences, FiniteSets, TLC

\* ------------------------------------------------------------------ bounds
\* The wall clock (Date.now()) runs from 1 to MaxTime.
MaxTime == 2
\* Sync requests served over a run.
MaxSyncs == 2
\* Longest text, in code points, and longest file list handed to a library call.
MaxLen == 2
\* Concurrent request-handler instances (worker isolates).
Procs == {"p1", "p2"}

\* Tracked repository identities.
Repos == {"acme/widgets", "acme/gadgets"}

\* null, a missing row, a missing object, a missing blob.
Null == "null"
NoRec == [missing |-> "row"]
NoObject == [missing |-> "object"]
NoBlob == <<>>
NoRequest == [missing |-> "request"]
NoResponse == [missing |-> "response"]
NoCall == [fn |-> "none"]
NoResult == [stage |-> "none"]

\* ------------------------------------------------------------ metadata row
repositoryStatus == {"pending", "backfilling", "syncing", "active", "error"}

\* The row POST / inserts.
NewRecord(t) ==
    [status |-> "pending", lastSyncAt |-> 0, errorMessage |-> Null,
     createdAt |-> t, updatedAt |-> t]

\* ------------------------------------------------------------ source items
\* The nodes the issues connection can serve, of type Issue: #1 open or
\* closed, and #2 open.
IssueNodes ==
    { [id |-> "I_1", number |-> 1, title |-> "t", bodyText |-> "b", state |-> s] :
        s \in {"OPEN", "CLOSED"} }
    \cup { [id |-> "I_2", number |-> 2, title |-> "u", bodyText |-> "b", state |-> "OPEN"] }

\* The nodes the pullRequests connection can serve, of type PullRequest:
\* #10 open under either title, closed or merged, and #11 open.
PullRequestNodes ==
    { [id |-> "PR_10", number |-> 10, title |-> t, bodyText |-> "b",
       state |-> "OPEN", files |-> <<"a.ts", "b.ts">>] : t \in {"t", "u"} }
    \cup { [id |-> "PR_10", number |-> 10, title |-> "t", bodyText |-> "b",
             state |-> s, files |-> <<"a.ts", "b.ts">>] : s \in {"CLOSED", "MERGED"} }
    \cup { [id |-> "PR_11", number |-> 11, title |-> "v", bodyText |-> "b",
             state |-> "OPEN", files |-> <<"c.ts">>] }

\* The issues connection of a repository whose issue #1 is edited between
\* syncs.
EditedIssueNodes ==
    IssueNodes
    \cup { [id |-> "I_1", number |-> 1, title |-> "u", bodyText |-> "b", state |-> "OPEN"] }

\* The nodes served while handler instances race.
RaceIssueNodes == { n \in IssueNodes : n.id = "I_1" /\ n.state = "OPEN" }
RacePullRequestNodes ==
    { n \in PullRequestNodes : n.id = "PR_10" /\ n.title = "t" /\ n.state = "OPEN" }

\* ------------------------------------------------- normaliser, hash, codec
RECURSIVE Join(_, _)
Join(paths, sep) ==
    IF Len(paths) = 0 THEN ""
    ELSE IF Len(paths) = 1 THEN paths[1]
    ELSE paths[1] \o sep \o Join(Tail(paths), sep)

prepIssue(issue) == issue.title \o "\n\n" \o issue.bodyText

\* Mutant of prepPullRequest: no separator is written before an empty file
\* list.
prepPullRequest_NoTrailingSeparator(pr) ==
    IF Len(pr.files) = 0 THEN pr.title \o "\n\n" \o pr.bodyText
    ELSE pr.title \o "\n\n" \o pr.bodyText \o "\n\n" \o Join(pr.files, "\n")

prepPullRequest(pr) ==
    pr.title \o "\n\n" \o pr.bodyText \o "\n\n" \o Join(pr.files, "\n")

\* Mutant of hashPr: the digest is taken of the title and the body alone.
hashPr_NoFiles(pr) == <<"sha256", pr.title \o "\n\n" \o pr.bodyText>>

\* Mutant of hashPr: the state goes into the digest.
hashPr_WithState(pr) == <<"sha256", prepPullRequest(pr) \o "\n\n" \o pr.state>>

\* SHA-256 of the normalised text, hex encoded: a digest, told apart from
\* the text it is taken of, and equal exactly for equal texts.
hashPr(pr) == <<"sha256", prepPullRequest(pr)>>

\* One vector per text, in the order of the texts.
generateEmbeddings(texts) == [k \in 1..Len(texts) |-> <<"vec", texts[k]>>]

JsonStringify(obj) == <<"json", obj>>
JsonParse(text) == text[2]
compressGzip(text) == <<"gzip", text>>
decompressGzip(buffer) == buffer[2]

\* The codec above takes the JSON text as one token: that text starts with
\* "{", and on such a text the codec loses nothing.  Below, the same two
\* functions on texts as sequences of code points and buffers of bytes.
ByteOrderMark == 65279
ReplacementCharacter == 65533

\* TextEncoder.encode: the UTF-8 bytes of one code point, of a text.
Utf8(cp) ==
    IF cp < 128 THEN <<cp>>
    ELSE IF cp < 2048 THEN <<192 + (cp \div 64), 128 + (cp % 64)>>
    ELSE IF cp < 65536
    THEN <<224 + (cp \div 4096), 128 + ((cp \div 64) % 64), 128 + (cp % 64)>>
    ELSE <<240 + (cp \div 262144), 128 + ((cp \div 4096) % 64),
           128 + ((cp \div 64) % 64), 128 + (cp % 64)>>

RECURSIVE encode(_)
encode(text) ==
    IF Len(text) = 0 THEN <<>> ELSE Utf8(Head(text)) \o encode(Tail(text))

\* The code points of a run of UTF-8 bytes; a byte that starts no sequence
\* decodes to U+FFFD.
Continuation(bytes, k) == Len(bytes) >= k /\ bytes[k] >= 128 /\ bytes[k] < 192

RECURSIVE Utf8Decode(_)
Utf8Decode(bytes) ==
    IF Len(bytes) = 0 THEN <<>>
    ELSE LET b == bytes[1] IN
         IF b < 128 THEN <<b>> \o Utf8Decode(SubSeq(bytes, 2, Len(bytes)))
         ELSE IF b >= 192 /\ b < 224 /\ Continuation(bytes, 2)
         THEN <<(b - 192) * 64 + (bytes[2] - 128)>>
                  \o Utf8Decode(SubSeq(bytes, 3, Len(bytes)))
         ELSE IF b >= 224 /\ b < 240 /\ Continuation(bytes, 2) /\ Continuation(bytes, 3)
         THEN <<(b - 224) * 4096 + (bytes[2] - 128) * 64 + (bytes[3] - 128)>>
                  \o Utf8Decode(SubSeq(bytes, 4, Len(bytes)))
         ELSE IF /\ b >= 240 /\ b < 248 /\ Continuation(bytes, 2)
                 /\ Continuation(bytes, 3) /\ Continuation(bytes, 4)
         THEN <<(b - 240) * 262144 + (bytes[2] - 128) * 4096
                    + (bytes[3] - 128) * 64 + (bytes[4] - 128)>>
                  \o Utf8Decode(SubSeq(bytes, 5, Len(bytes)))
         ELSE <<ReplacementCharacter>> \o Utf8Decode(SubSeq(bytes, 2, Len(bytes)))

\* TextDecoder.decode of a decoder made with no options: ignoreBOM is false,
\* so the bytes of a leading U+FEFF are taken off before decoding.
decode(bytes) ==
    IF Len(bytes) >= 3 /\ SubSeq(bytes, 1, 3) = Utf8(ByteOrderMark)
    THEN Utf8Decode(SubSeq(bytes, 4, Len(bytes)))
    ELSE Utf8Decode(bytes)

\* A gzip member: the data, lossless, under a header and a size trailer.
CompressionStream(data) == [format |-> "gzip", data |-> data, isize |-> Len(data)]

DecompressionStream(buffer) == buffer.data

compressGzipBytes(text) == CompressionStream(encode(text))

decompressGzipBytes(buffer) == decode(DecompressionStream(buffer))

\* ---------------------------------------------------------------- helpers
Ids(seq) == { seq[k].id : k \in 1..Len(seq) }

\* The last element of seq with the given id (a Map.set in a loop keeps it).
LastWithId(seq, id) ==
    seq[CHOOSE k \in 1..Len(seq) :
            /\ seq[k].id = id
            /\ \A j \in (k+1)..Len(seq) : seq[j].id # id]

LastIndexWithId(seq, id) ==
    CHOOSE k \in 1..Len(seq) :
        /\ seq[k].id = id
        /\ \A j \in (k+1)..Len(seq) : seq[j].id # id

Override(f, g) ==
    [x \in (DOMAIN f) \cup (DOMAIN g) |-> IF x \in DOMAIN g THEN g[x] ELSE f[x]]

Without(f, ids) == [x \in (DOMAIN f) \ ids |-> f[x]]

EmptyMap == [x \in {} |-> Null]

\* ------------------------------------------------------------- merge steps
IsOpen(node) == node.state = "OPEN"

OpenIssues(allIssues) == SelectSeq(allIssues, IsOpen)

IssueTexts(allIssues) ==
    [k \in 1..Len(OpenIssues(allIssues)) |-> prepIssue(OpenIssues(allIssues)[k])]

\* Mutant of IssueVectors: the vectors are handed out from the end of the list.
IssueVectors_Reversed(allIssues, issueEmbeddings) ==
    LET open == OpenIssues(allIssues) IN
    [id \in Ids(open) |->
        [id |-> id,
         number |-> LastWithId(open, id).number,
         state |-> "open",
         vector |-> issueEmbeddings[Len(open) + 1 - LastIndexWithId(open, id)]]]

IssueVectors(allIssues, issueEmbeddings) ==
    LET open == OpenIssues(allIssues) IN
    [id \in Ids(open) |->
        [id |-> id,
         number |-> LastWithId(open, id).number,
         state |-> "open",
         vector |-> issueEmbeddings[LastIndexWithId(open, id)]]]

ClosedIssueIds(allIssues) ==
    { allIssues[k].id : k \in { j \in 1..Len(allIssues) : ~IsOpen(allIssues[j]) } }

RemoveClosedIssues(mergedIssues, allIssues) ==
    Without(mergedIssues, ClosedIssueIds(allIssues))

PrHashes(allPRs) == [id \in Ids(allPRs) |-> hashPr(LastWithId(allPRs, id))]

\* Mutant of NeedsEmbedding: every fetched pull request is embedded again.
NeedsEmbedding_Always(mergedPullRequests, pr) == TRUE

\* Mutant of NeedsEmbedding: a pull request that has an entry is never
\* embedded again.
NeedsEmbedding_NewOnly(mergedPullRequests, pr) == pr.id \notin DOMAIN mergedPullRequests

NeedsEmbedding(mergedPullRequests, pr) ==
    \/ pr.id \notin DOMAIN mergedPullRequests
    \/ mergedPullRequests[pr.id].hash # hashPr(pr)

PrsToEmbed(allPRs, mergedPullRequests) ==
    LET Needs(pr) == NeedsEmbedding(mergedPullRequests, pr) IN
    SelectSeq(allPRs, Needs)

PrTexts(allPRs, mergedPullRequests) ==
    LET sel == PrsToEmbed(allPRs, mergedPullRequests) IN
    [k \in 1..Len(sel) |-> prepPullRequest(sel[k])]

VectorState(node) == IF node.state = "OPEN" THEN "open" ELSE "closed"

\* Mutant of PrVectors: a new entry records the hash of the empty text.
PrVectors_HashOfNothing(prsToEmbed, prHashes, prEmbeddings) ==
    [id \in Ids(prsToEmbed) |->
        [id |-> id,
         number |-> LastWithId(prsToEmbed, id).number,
         state |-> VectorState(LastWithId(prsToEmbed, id)),
         hash |-> <<"sha256", "">>,
         vector |-> prEmbeddings[LastIndexWithId(prsToEmbed, id)]]]

PrVectors(prsToEmbed, prHashes, prEmbeddings) ==
    [id \in Ids(prsToEmbed) |->
        [id |-> id,
         number |-> LastWithId(prsToEmbed, id).number,
         state |-> VectorState(LastWithId(prsToEmbed, id)),
         hash |-> prHashes[id],
         vector |-> prEmbeddings[LastIndexWithId(prsToEmbed, id)]]]

\* One pass of the loop that merges the pull requests into the map.
MergeOnePr(mergedPullRequests, pr, prHashes, prVectors) ==
    IF pr.id \in DOMAIN prVectors
    THEN Override(mergedPullRequests, [x \in {pr.id} |-> prVectors[pr.id]])
    ELSE LET existingEntry == mergedPullRequests[pr.id] IN
         Override(mergedPullRequests,
                  [x \in {pr.id} |->
                      [id |-> existingEntry.id,
                       number |-> existingEntry.number,
                       vector |-> existingEntry.vector,
                       hash |-> prHashes[pr.id],
                       state |-> VectorState(pr)]])

RECURSIVE MergePrs(_, _, _, _)
MergePrs(mergedPullRequests, allPRs, prHashes, prVectors) ==
    IF Len(allPRs) = 0 THEN mergedPullRequests
    ELSE MergePrs(MergeOnePr(mergedPullRequests, Head(allPRs), prHashes, prVectors),
                  Tail(allPRs), prHashes, prVectors)

\* Mutant of MergedIssues: the map is rebuilt from the fetched issues alone.
MergedIssues_FetchedOnly(existingIssues, allIssues, issueEmbeddings) ==
    IssueVectors(allIssues, issueEmbeddings)

\* Mutant of MergedIssues: an entry the object already has is kept.
MergedIssues_ExistingWins(existingIssues, allIssues, issueEmbeddings) ==
    Override(IssueVectors(allIssues, issueEmbeddings),
             RemoveClosedIssues(existingIssues, allIssues))

MergedIssues(existingIssues, allIssues, issueEmbeddings) ==
    Override(RemoveClosedIssues(existingIssues, allIssues),
             IssueVectors(allIssues, issueEmbeddings))

MergedPullRequests(existingPrs, allPRs, prEmbeddings) ==
    MergePrs(existingPrs, allPRs, PrHashes(allPRs),
             PrVectors(PrsToEmbed(allPRs, existingPrs), PrHashes(allPRs), prEmbeddings))

\* ------------------------------------------------------------ submit input
\* Texts a client can post as repoUrl: what stands before the host, the host,
\* the path segments after it, and a closing slash.  The text is
\* prefix host "/" segs[1] "/" ... slash; one without a host has no prefix and
\* is its segments joined by "/".
Url(prefix, host, segs, slash) ==
    [prefix |-> prefix, host |-> host, segs |-> segs, slash |-> slash]

\* The texts that name a repository, in the forms the handler is offered.
WellFormedUrls ==
    { Url("https://", "github.com", <<"acme", "widgets">>, ""),
      Url("https://", "github.com", <<"acme", "gadgets">>, ""),
      Url("", "", <<"acme", "widgets">>, "") }

\* Texts that name none: "acme"; another host; no repo; a longer path; a
\* name with a blank in it; an empty name; a shorthand with a closing slash.
MalformedUrls ==
    { Url("", "", <<"acme">>, ""),
      Url("https://", "gitlab.com", <<"acme", "widgets">>, ""),
      Url("https://", "github.com", <<"acme">>, ""),
      Url("https://", "github.com", <<"acme", "widgets", "issues">>, ""),
      Url("", "", <<"acme", "wid gets">>, ""),
      Url("", "", <<"acme", "">>, ""),
      Url("", "", <<"acme", "widgets">>, "/") }

SubmitUrls == WellFormedUrls \cup MalformedUrls

\* [a-zA-Z0-9._-]+ : the texts of these characters only, and of one at least.
NameTexts == {"acme", "widgets", "gadgets", "issues", "github.com", "www.github.com"}

\* ^(?:https://|www\.)?github\.com/(?<owner>...)/(?<repo>...)/?$
githubUrlRegex(url) ==
    /\ url.prefix \in {"https://", "www.", ""}
    /\ url.host = "github.com"
    /\ Len(url.segs) = 2
    /\ \A k \in 1..Len(url.segs) : url.segs[k] \in NameTexts

\* The parts of the text between its slashes, when it holds no "://".
Parts(url) ==
    IF url.host = "" THEN url.segs ELSE <<url.prefix \o url.host>> \o url.segs

\* ^(?<owner>...)/(?<repo>...)$
githubShorthandRegex(url) ==
    /\ url.prefix \in {"www.", ""}
    /\ url.slash = ""
    /\ Len(Parts(url)) = 2
    /\ \A k \in 1..Len(Parts(url)) : Parts(url)[k] \in NameTexts

ParseError == [error |-> "Invalid repository URL"]

\* Mutant of parseGitHubRepoUrl: a URL of any host is taken.
parseGitHubRepoUrl_AnyHost(url) ==
    IF url.host # "" /\ Len(url.segs) = 2
    THEN [fullName |-> url.segs[1] \o "/" \o url.segs[2]]
    ELSE IF githubShorthandRegex(url)
    THEN [fullName |-> Parts(url)[1] \o "/" \o Parts(url)[2]]
    ELSE ParseError

parseGitHubRepoUrl(url) ==
    IF githubUrlRegex(url)
    THEN [fullName |-> url.segs[1] \o "/" \o url.segs[2]]
    ELSE IF githubShorthandRegex(url)
    THEN [fullName |-> Parts(url)[1] \o "/" \o Parts(url)[2]]
    ELSE ParseError

\* No repoUrl: the handler instance serves no submission.
NoUrl == [missing |-> "repoUrl"]

\* ------------------------------------------------------------------- state
VARIABLES
    now,                 \* Date.now()
    rec,                 \* the repositories table: fullName -> row
    store,               \* the blob store: fullName -> the object {owner}/{repo}.json.gz
    nsync,               \* sync requests served so far
    pc,                  \* where each handler instance stands
    target,              \* the repository a handler instance works on
    since,               \* the watermark the sync handler took from the row it selected
    mergedIssues,        \* the issues map taken from the existing object
    mergedPullRequests,  \* the pullRequests map taken from the existing object
    allIssues,           \* issues fetched so far
    allPRs,              \* pull requests fetched so far
    cursor,              \* the endCursor of the last page read
    issueEmbeddings,     \* vectors returned for the open issues
    vectorObject,        \* the merged object, once built
    batches,             \* the text lists handed to generateEmbeddings in this sync
    request,             \* the page request a handler instance sent last, while it fetches
    response,            \* the answer to that request
    repoUrl,             \* the repoUrl of the submission a handler instance took last
    call,                \* a library function under call, with its arguments
    result               \* what the call has returned so far

shared == <<now, rec, store, nsync>>
locals == <<target, since, mergedIssues, mergedPullRequests, allIssues, allPRs,
            cursor, issueEmbeddings, vectorObject, batches, request, response,
            repoUrl>>
lib == <<call, result>>
vars == <<now, rec, store, nsync, pc, target, since, mergedIssues,
          mergedPullRequests, allIssues, allPRs, cursor, issueEmbeddings,
          vectorObject, batches, request, response, repoUrl, call, result>>

\* A handler instance that holds no request can take the next one.
Free == {"idle", "done", "failed", "crashed", "notfound",
         "created", "returned", "rejected", "conflict"}
\* The awaits of the sync handler inside its try block, in order.
TryStages == <<"get", "issues", "prs", "embedIssues", "hash", "embedPRs",
               "compress", "put", "update">>
InTry == { TryStages[k] : k \in 1..Len(TryStages) }
\* From the first page request on.
FetchBegun == InTry \ {"get"}

\* The empty table and store, and no request in any handler.
InitSync ==
    /\ now = 1
    /\ rec = [r \in Repos |-> NoRec]
    /\ store = [r \in Repos |-> NoBlob]
    /\ nsync = 0
    /\ pc = [p \in Procs |-> "idle"]
    /\ target = [p \in Procs |-> Null]
    /\ since = [p \in Procs |-> 0]
    /\ mergedIssues = [p \in Procs |-> EmptyMap]
    /\ mergedPullRequests = [p \in Procs |-> EmptyMap]
    /\ allIssues = [p \in Procs |-> <<>>]
    /\ allPRs = [p \in Procs |-> <<>>]
    /\ cursor = [p \in Procs |-> Null]
    /\ issueEmbeddings = [p \in Procs |-> <<>>]
    /\ vectorObject = [p \in Procs |-> NoObject]
    /\ batches = [p \in Procs |-> <<>>]
    /\ request = [p \in Procs |-> NoRequest]
    /\ response = [p \in Procs |-> NoResponse]
    /\ repoUrl = [p \in Procs |-> NoUrl]

Init ==
    /\ InitSync
    /\ call = NoCall
    /\ result = NoResult

\* The handler returns: its locals are gone.
Return(p, outcome) ==
    /\ pc' = [pc EXCEPT ![p] = outcome]
    /\ target' = [target EXCEPT ![p] = Null]
    /\ since' = [since EXCEPT ![p] = 0]
    /\ mergedIssues' = [mergedIssues EXCEPT ![p] = EmptyMap]
    /\ mergedPullRequests' = [mergedPullRequests EXCEPT ![p] = EmptyMap]
    /\ allIssues' = [allIssues EXCEPT ![p] = <<>>]
    /\ allPRs' = [allPRs EXCEPT ![p] = <<>>]
    /\ cursor' = [cursor EXCEPT ![p] = Null]
    /\ issueEmbeddings' = [issueEmbeddings EXCEPT ![p] = <<>>]
    /\ vectorObject' = [vectorObject EXCEPT ![p] = NoObject]
    /\ batches' = [batches EXCEPT ![p] = <<>>]
    /\ request' = [request EXCEPT ![p] = NoRequest]
    /\ response' = [response EXCEPT ![p] = NoResponse]
    /\ repoUrl' = [repoUrl EXCEPT ![p] = NoUrl]

Goto(p, stage) == pc' = [pc EXCEPT ![p] = stage]

Tick ==
    /\ now < MaxTime
    /\ now' = now + 1
    /\ UNCHANGED <<rec, store, nsync, pc, locals>>
    /\ UNCHANGED lib

\* ------------------------------------------------------------------ POST /
SubmitSelect(p, url) ==
    /\ pc[p] \in Free
    /\ LET parseResult == parseGitHubRepoUrl(url) IN
       IF parseResult = ParseError
       THEN /\ Goto(p, "rejected")
            /\ UNCHANGED target
       ELSE IF rec[parseResult.fullName] # NoRec
       THEN /\ Goto(p, "returned")
            /\ UNCHANGED target
       ELSE /\ Goto(p, "insert")
            /\ target' = [target EXCEPT ![p] = parseResult.fullName]
    /\ repoUrl' = [repoUrl EXCEPT ![p] = url]
    /\ UNCHANGED <<shared, since, mergedIssues, mergedPullRequests, allIssues,
                   allPRs, cursor, issueEmbeddings, vectorObject, batches, request,
                   response>>
    /\ UNCHANGED lib

\* Mutant of SubmitInsert: the table has no key on the identity, and the row
\* inserted last is the one found.
SubmitInsert_NoKey(p) ==
    /\ pc[p] = "insert"
    /\ rec' = [rec EXCEPT ![target[p]] = NewRecord(now)]
    /\ Return(p, "created")
    /\ UNCHANGED <<now, store, nsync>>
    /\ UNCHANGED lib

\* The insert; the table's key on the identity refuses a second row.
SubmitInsert(p) ==
    /\ pc[p] = "insert"
    /\ IF rec[target[p]] = NoRec
       THEN /\ rec' = [rec EXCEPT ![target[p]] = NewRecord(now)]
            /\ Return(p, "created")
       ELSE /\ UNCHANGED rec
            /\ Return(p, "conflict")
    /\ UNCHANGED <<now, store, nsync>>
    /\ UNCHANGED lib

\* ------------------------------------------------ POST /:owner/:repo/sync
\* What the handler asks of the selected row before it goes on.
SyncProceeds(row) == row # NoRec

\* The row as the handler leaves it before its first request to the source.
StartedRecord(row) == row

\* The select, the 404, the token, and the watermark of this run.
SyncSelect(p, r) ==
    /\ pc[p] \in Free
    /\ nsync < MaxSyncs
    /\ nsync' = nsync + 1
    /\ IF SyncProceeds(rec[r])
       THEN /\ Goto(p, "get")
            /\ target' = [target EXCEPT ![p] = r]
            /\ since' = [since EXCEPT ![p] = rec[r].lastSyncAt]
            /\ rec' = [rec EXCEPT ![r] = StartedRecord(@)]
       ELSE /\ Goto(p, "notfound")
            /\ UNCHANGED <<target, since, rec>>
    /\ repoUrl' = [repoUrl EXCEPT ![p] = NoUrl]
    /\ UNCHANGED <<now, store, mergedIssues, mergedPullRequests, allIssues,
                   allPRs, cursor, issueEmbeddings, vectorObject, batches, request,
                   response>>
    /\ UNCHANGED lib

\* The maps of the object read from the store, or empty ones.
ExistingIssues(blob) ==
    IF blob = NoBlob THEN EmptyMap ELSE JsonParse(decompressGzip(blob)).issues

ExistingPullRequests(blob) ==
    IF blob = NoBlob THEN EmptyMap ELSE JsonParse(decompressGzip(blob)).pullRequests

\* Mutant of objectKey: every repository's object goes under one key.
objectKey_Shared(fullRepoName) == "acme/widgets"

\* The key of a repository's object in the store, {owner}/{repo}.json.gz.
objectKey(fullRepoName) == fullRepoName

StorageGet(p) ==
    /\ pc[p] = "get"
    /\ mergedIssues' =
           [mergedIssues EXCEPT ![p] = ExistingIssues(store[objectKey(target[p])])]
    /\ mergedPullRequests' =
           [mergedPullRequests EXCEPT ![p] =
               ExistingPullRequests(store[objectKey(target[p])])]
    /\ Goto(p, "issues")
    /\ UNCHANGED <<shared, target, since, allIssues, allPRs, cursor,
                   issueEmbeddings, vectorObject, batches, request,
                   response, repoUrl>>
    /\ UNCHANGED lib

\* The nodes of a connection that follow, in its order, the ones served up to
\* the cursor.
After(nodes, seen) ==
    { m \in nodes : \A k \in 1..Len(seen) : seen[k].number < m.number }

\* The pages the source can answer a request with: no node and no next page,
\* or a node that follows the ones served, with a next page announced only
\* when a node follows that one too.
PagesOver(nodes, seen) ==
    { [nodes |-> <<>>, hasNextPage |-> FALSE] }
    \cup UNION { { [nodes |-> <<n>>, hasNextPage |-> b] :
                      b \in { c \in BOOLEAN : c => After(nodes, seen \o <<n>>) # {} } } :
                  n \in After(nodes, seen) }

EndCursor(page) == IF Len(page.nodes) = 0 THEN Null ELSE page.nodes[Len(page.nodes)].id

\* The answer the handler reads: the nodes and the pageInfo.
Response(page) ==
    [nodes |-> page.nodes,
     pageInfo |-> [hasNextPage |-> page.hasNextPage, endCursor |-> EndCursor(page)]]

\* Every page request asks for this many nodes.
first == 100

\* The since variable of the handler: the watermark as an ISO date, or null
\* (the empty tuple) for a repository never synced.
SinceOf(lastSyncAt) == IF lastSyncAt > 0 THEN <<"iso", lastSyncAt>> ELSE <<>>

\* What the two queries ask of the source, given their variables: the
\* connection, the page, the states filter and the since filter.
FETCH_ISSUES_QUERY(variables) ==
    [connection |-> "issues", first |-> variables.first, after |-> variables.after,
     states |-> {"OPEN"}, since |-> variables.since]

FETCH_PULL_REQUESTS_QUERY(variables) ==
    [connection |-> "pullRequests", first |-> variables.first,
     after |-> variables.after, states |-> {"OPEN"}, since |-> <<>>]

\* One pass of the issues loop: a request with after = cursor, and its answer.
FetchIssuesPage(p, page) ==
    /\ pc[p] = "issues"
    /\ request' = [request EXCEPT ![p] =
           FETCH_ISSUES_QUERY([first |-> first, after |-> cursor[p],
                               since |-> SinceOf(since[p])])]
    /\ response' = [response EXCEPT ![p] = Response(page)]
    /\ allIssues' = [allIssues EXCEPT ![p] = @ \o page.nodes]
    /\ IF page.hasNextPage
       THEN /\ cursor' = [cursor EXCEPT ![p] = EndCursor(page)]
            /\ UNCHANGED pc
       ELSE /\ cursor' = [cursor EXCEPT ![p] = Null]
            /\ Goto(p, "prs")
    /\ UNCHANGED <<shared, repoUrl, target, since, mergedIssues, mergedPullRequests,
                   allPRs, issueEmbeddings, vectorObject, batches>>
    /\ UNCHANGED lib

\* Mutant of FetchPullRequestsPage: every request asks for the first page.
FetchPullRequestsPage_FromStart(p, page) ==
    /\ pc[p] = "prs"
    /\ request' = [request EXCEPT ![p] =
           FETCH_PULL_REQUESTS_QUERY([first |-> first, after |-> Null])]
    /\ response' = [response EXCEPT ![p] = Response(page)]
    /\ allPRs' = [allPRs EXCEPT ![p] = @ \o page.nodes]
    /\ IF page.hasNextPage
       THEN /\ cursor' = [cursor EXCEPT ![p] = EndCursor(page)]
            /\ UNCHANGED pc
       ELSE /\ cursor' = [cursor EXCEPT ![p] = Null]
            /\ Goto(p, "embedIssues")
    /\ UNCHANGED <<shared, repoUrl, target, since, mergedIssues, mergedPullRequests,
                   allIssues, issueEmbeddings, vectorObject, batches>>
    /\ UNCHANGED lib

\* One pass of the pull requests loop.
FetchPullRequestsPage(p, page) ==
    /\ pc[p] = "prs"
    /\ request' = [request EXCEPT ![p] =
           FETCH_PULL_REQUESTS_QUERY([first |-> first, after |-> cursor[p]])]
    /\ response' = [response EXCEPT ![p] = Response(page)]
    /\ allPRs' = [allPRs EXCEPT ![p] = @ \o page.nodes]
    /\ IF page.hasNextPage
       THEN /\ cursor' = [cursor EXCEPT ![p] = EndCursor(page)]
            /\ UNCHANGED pc
       ELSE /\ cursor' = [cursor EXCEPT ![p] = Null]
            /\ Goto(p, "embedIssues")
    /\ UNCHANGED <<shared, repoUrl, target, since, mergedIssues, mergedPullRequests,
                   allIssues, issueEmbeddings, vectorObject, batches>>
    /\ UNCHANGED lib

\* generateEmbeddings is called only with a non-empty list.
Submitted(log, texts) == IF Len(texts) > 0 THEN Append(log, texts) ELSE log

\* The fetch is over, its last request answered; the first embedding call.
EmbedIssues(p) ==
    /\ pc[p] = "embedIssues"
    /\ issueEmbeddings' = [issueEmbeddings EXCEPT ![p] =
           generateEmbeddings(IssueTexts(allIssues[p]))]
    /\ batches' = [batches EXCEPT ![p] = Submitted(@, IssueTexts(allIssues[p]))]
    /\ request' = [request EXCEPT ![p] = NoRequest]
    /\ response' = [response EXCEPT ![p] = NoResponse]
    /\ Goto(p, "hash")
    /\ UNCHANGED <<shared, repoUrl, target, since, mergedIssues, mergedPullRequests,
                   allIssues, allPRs, cursor, vectorObject>>
    /\ UNCHANGED lib

\* The loop of awaited hashPr calls; its results are functions of allPRs.
HashPullRequests(p) ==
    /\ pc[p] = "hash"
    /\ Goto(p, "embedPRs")
    /\ UNCHANGED <<shared, locals>>
    /\ UNCHANGED lib

BuildVectorObject(fullRepoName, t, issuesMap, prsMap, issues, prs, issueVecs, prVecs) ==
    [repo |-> fullRepoName,
     syncedAt |-> t,
     issues |-> MergedIssues(issuesMap, issues, issueVecs),
     pullRequests |-> MergedPullRequests(prsMap, prs, prVecs)]

\* The second embedding call, then the merge and the object, built in one go.
EmbedPullRequests(p) ==
    /\ pc[p] = "embedPRs"
    /\ LET prTexts == PrTexts(allPRs[p], mergedPullRequests[p]) IN
       /\ batches' = [batches EXCEPT ![p] = Submitted(@, prTexts)]
       /\ vectorObject' = [vectorObject EXCEPT ![p] =
              BuildVectorObject(target[p], now, mergedIssues[p],
                                mergedPullRequests[p], allIssues[p], allPRs[p],
                                issueEmbeddings[p], generateEmbeddings(prTexts))]
    /\ Goto(p, "compress")
    /\ UNCHANGED <<shared, repoUrl, target, since, mergedIssues, mergedPullRequests,
                   allIssues, allPRs, cursor, issueEmbeddings, request,
                   response>>
    /\ UNCHANGED lib

Compress(p) ==
    /\ pc[p] = "compress"
    /\ Goto(p, "put")
    /\ UNCHANGED <<shared, locals>>
    /\ UNCHANGED lib

StoragePut(p) ==
    /\ pc[p] = "put"
    /\ store' = [store EXCEPT ![objectKey(target[p])] =
           compressGzip(JsonStringify(vectorObject[p]))]
    /\ Goto(p, "update")
    /\ UNCHANGED <<now, rec, nsync, locals>>
    /\ UNCHANGED lib

\* Mutant of SyncStamp: the stamp taken when the object was built.
SyncStamp_SyncedAt(t, syncedAt) == syncedAt

\* The value the handler writes to lastSyncAt, given the clock and the
\* syncedAt of the object it stored.
SyncStamp(t, syncedAt) == t

\* Mutant of UpdatedRecord: the update also marks the row active.
UpdatedRecord_Active(row, stamp, t) ==
    [row EXCEPT !.status = "active", !.lastSyncAt = stamp, !.updatedAt = t]

\* The row after the handler's update of the metadata.
UpdatedRecord(row, stamp, t) ==
    [row EXCEPT !.lastSyncAt = stamp, !.updatedAt = t]

DbUpdate(p) ==
    /\ pc[p] = "update"
    /\ rec' = [rec EXCEPT ![target[p]] =
           IF @ = NoRec THEN @
           ELSE UpdatedRecord(@, SyncStamp(now, vectorObject[p].syncedAt), now)]
    /\ Return(p, "done")
    /\ UNCHANGED <<now, store, nsync>>
    /\ UNCHANGED lib

\* Mutant of CatchRecord: the catch block stamps the row.
CatchRecord_Stamps(row, message, t) == [row EXCEPT !.lastSyncAt = t, !.updatedAt = t]

\* Mutant of CatchRecord: the catch block records the message and leaves the
\* status.
CatchRecord_Message(row, message, t) == [row EXCEPT !.errorMessage = message]

\* Mutant of CatchRecord: the catch block moves the watermark.
CatchRecord_Watermark(row, message, t) == [row EXCEPT !.lastSyncAt = t]

\* The row after the handler's catch block.
CatchRecord(row, message, t) == row

\* Mutant of CatchBlob: the catch block deletes the stored object.
CatchBlob_Deleted(blob) == NoBlob

\* The stored object after the handler's catch block.
CatchBlob(blob) == blob

\* Any await inside the try block can throw; the catch answers 500.
SyncFail(p) ==
    /\ pc[p] \in InTry
    /\ rec' = [rec EXCEPT ![target[p]] =
           IF @ = NoRec THEN @ ELSE CatchRecord(@, "Sync failed", now)]
    /\ store' = [store EXCEPT ![objectKey(target[p])] = CatchBlob(@)]
    /\ Return(p, "failed")
    /\ UNCHANGED <<now, nsync>>
    /\ UNCHANGED lib

\* The worker is killed mid-request: nothing more of the handler runs.
Crash(p) ==
    /\ pc[p] \in InTry
    /\ Return(p, "crashed")
    /\ UNCHANGED shared
    /\ UNCHANGED lib

\* The steps of a set of handler instances against a source serving the
\* given nodes.
NextOf(P, requests, issueNodes, prNodes) ==
    \/ Tick
    \/ \E p \in P : \E url \in requests[p].urls : SubmitSelect(p, url)
    \/ \E p \in P : SubmitInsert(p)
    \/ \E p \in P : \E r \in requests[p].repos : SyncSelect(p, r)
    \/ \E p \in P : StorageGet(p)
    \/ \E p \in P : \E page \in PagesOver(issueNodes, allIssues[p]) :
          FetchIssuesPage(p, page)
    \/ \E p \in P : \E page \in PagesOver(prNodes, allPRs[p]) :
          FetchPullRequestsPage(p, page)
    \/ \E p \in P : EmbedIssues(p)
    \/ \E p \in P : HashPullRequests(p)
    \/ \E p \in P : EmbedPullRequests(p)
    \/ \E p \in P : Compress(p)
    \/ \E p \in P : StoragePut(p)
    \/ \E p \in P : DbUpdate(p)
    \/ \E p \in P : SyncFail(p)
    \/ \E p \in P : Crash(p)

\* The requests a handler instance is sent: the repoUrl texts of submissions
\* and the repositories of sync triggers.  All for one repository, one client
\* posting its URL and the other the shorthand.
OneRepository ==
    [p \in Procs |->
        [urls |-> IF p = "p1"
                  THEN {Url("https://", "github.com", <<"acme", "widgets">>, "")}
                  ELSE {Url("", "", <<"acme", "widgets">>, "")},
         repos |-> {"acme/widgets"}]]

\* Each handler instance serving a repository of its own.
OwnRepository ==
    [p \in Procs |->
        [urls |-> IF p = "p1"
                  THEN {Url("https://", "github.com", <<"acme", "widgets">>, "")}
                  ELSE {Url("https://", "github.com", <<"acme", "gadgets">>, "")},
         repos |-> IF p = "p1" THEN {"acme/widgets"} ELSE {"acme/gadgets"}]]

\* Every text, well-formed or not, and triggers for one repository.
EveryText ==
    [p \in Procs |-> [urls |-> SubmitUrls, repos |-> {"acme/widgets"}]]

\* Handler instances racing on the repository.
Next == NextOf(Procs, OneRepository, RaceIssueNodes, RacePullRequestNodes)

Spec == Init /\ [][Next]_vars

\* One handler instance at a time, against every kind of node.
NextMerge == NextOf({"p1"}, OneRepository, IssueNodes, PullRequestNodes)

SpecMerge == Init /\ [][NextMerge]_vars

\* Two repositories, each synced by a handler instance of its own.
NextRepos == NextOf(Procs, OwnRepository, RaceIssueNodes, {})

SpecRepos == Init /\ [][NextRepos]_vars

\* One handler instance, against issues that are edited and no pull request.
NextIssues == NextOf({"p1"}, OneRepository, EditedIssueNodes, {})

SpecIssues == Init /\ [][NextIssues]_vars

\* One handler instance against open items, two of each connection, every
\* page request of which is answered in the end.
PagedIssueNodes == { n \in IssueNodes : IsOpen(n) }
PagedPullRequestNodes == { n \in PullRequestNodes : IsOpen(n) /\ n.title # "u" }

NextFetch == NextOf({"p1"}, OneRepository, PagedIssueNodes, PagedPullRequestNodes)

SpecFetch ==
    /\ Init
    /\ [][NextFetch]_vars
    /\ WF_vars(\E page \in PagesOver(PagedIssueNodes, allIssues["p1"]) :
                  FetchIssuesPage("p1", page))
    /\ WF_vars(\E page \in PagesOver(PagedPullRequestNodes, allPRs["p1"]) :
                  FetchPullRequestsPage("p1", page))

\* One handler instance, posted every text.
NextSubmit == NextOf({"p1"}, EveryText, RaceIssueNodes, {})

SpecSubmit == Init /\ [][NextSubmit]_vars

\* ---------------------------------------------------------- library calls
\* Code points of one, two, three and four UTF-8 bytes, and U+FEFF.
Chars == {97, 233, 8364, 128512, ByteOrderMark}

\* The texts of at most n code points.
Texts(n) == UNION { [1..k -> Chars] : k \in 0..n }

\* File paths: two plain ones, and one that holds a newline.
PlainPaths == {"a.ts", "b.ts"}
Paths == PlainPaths \cup {"a.ts\nb.ts"}

FileLists(n) == UNION { [1..k -> Paths] : k \in 0..n }

\* Pull requests to hash: a first one, and a second one of any identity and
\* state.
HashedFirst ==
    { [id |-> "PR_10", number |-> 10, title |-> t, bodyText |-> b,
       state |-> "OPEN", files |-> f] :
        t \in {"t", "u"}, b \in {"b", ""}, f \in FileLists(MaxLen) }

HashedSecond ==
    { [id |-> i[1], number |-> i[2], title |-> t, bodyText |-> b,
       state |-> s, files |-> f] :
        i \in {<<"PR_10", 10>>, <<"PR_11", 11>>}, t \in {"t", "u"}, b \in {"b", ""},
        s \in {"OPEN", "CLOSED", "MERGED"}, f \in FileLists(MaxLen) }

\* The issues and pull requests the tests of the normaliser are run on, each
\* with the text the test expects.
PrepIssueTests ==
    { [item |-> [id |-> "I_123", number |-> 42, title |-> "Fix login bug",
                 bodyText |-> "Users cannot log in with OAuth.", state |-> "OPEN"],
       text |-> "Fix login bug\n\nUsers cannot log in with OAuth."],
      [item |-> [id |-> "I_124", number |-> 43, title |-> "Update README",
                 bodyText |-> "", state |-> "CLOSED"],
       text |-> "Update README\n\n"],
      [item |-> [id |-> "I_125", number |-> 44, title |-> "Add feature",
                 bodyText |-> "First line.\nSecond line.\nThird line.", state |-> "OPEN"],
       text |-> "Add feature\n\nFirst line.\nSecond line.\nThird line."] }

PrepPullRequestTests ==
    { [item |-> [id |-> "PR_123", number |-> 42, title |-> "Refactor auth",
                 bodyText |-> "This PR refactors the auth system.", state |-> "OPEN",
                 files |-> <<"src/auth.ts", "src/utils.ts">>],
       text |-> "Refactor auth\n\nThis PR refactors the auth system.\n\nsrc/auth.ts\nsrc/utils.ts"],
      [item |-> [id |-> "PR_124", number |-> 43, title |-> "Update docs",
                 bodyText |-> "Fix typos in documentation.", state |-> "OPEN",
                 files |-> <<>>],
       text |-> "Update docs\n\nFix typos in documentation.\n\n"],
      [item |-> [id |-> "PR_125", number |-> 44, title |-> "Fix typo",
                 bodyText |-> "", state |-> "CLOSED", files |-> <<"README.md">>],
       text |-> "Fix typo\n\n\n\nREADME.md"],
      [item |-> [id |-> "PR_126", number |-> 45, title |-> "Config update",
                 bodyText |-> "", state |-> "MERGED",
                 files |-> <<"package.json", "tsconfig.json", ".env">>],
       text |-> "Config update\n\n\n\npackage.json\ntsconfig.json\n.env"] }

\* The calls of the library functions, with their arguments.
LibCalls ==
    { [fn |-> "compressGzip", text |-> s] : s \in Texts(MaxLen) }
    \cup { [fn |-> "hashPr", a |-> a, b |-> b] : a \in HashedFirst, b \in HashedSecond }
    \cup { [fn |-> "prepIssue", item |-> i] :
              i \in IssueNodes \cup { e.item : e \in PrepIssueTests } }
    \cup { [fn |-> "prepPullRequest", item |-> pr] :
              pr \in HashedFirst \cup { e.item : e \in PrepPullRequestTests } }

InitLib ==
    /\ InitSync
    /\ call \in LibCalls
    /\ result = NoResult

LibCompress ==
    /\ call.fn = "compressGzip"
    /\ result.stage = "none"
    /\ result' = [stage |-> "compressed", buffer |-> compressGzipBytes(call.text)]
    /\ UNCHANGED <<shared, pc, locals, call>>

LibDecompress ==
    /\ call.fn = "compressGzip"
    /\ result.stage = "compressed"
    /\ result' = [stage |-> "decompressed", text |-> decompressGzipBytes(result.buffer)]
    /\ UNCHANGED <<shared, pc, locals, call>>

LibHash ==
    /\ call.fn = "hashPr"
    /\ result.stage = "none"
    /\ result' = [stage |-> "hashed", a |-> hashPr(call.a), b |-> hashPr(call.b)]
    /\ UNCHANGED <<shared, pc, locals, call>>

LibPrepIssue ==
    /\ call.fn = "prepIssue"
    /\ result.stage = "none"
    /\ result' = [stage |-> "prepared", text |-> prepIssue(call.item)]
    /\ UNCHANGED <<shared, pc, locals, call>>

LibPrepPullRequest ==
    /\ call.fn = "prepPullRequest"
    /\ result.stage = "none"
    /\ result' = [stage |-> "prepared", text |-> prepPullRequest(call.item)]
    /\ UNCHANGED <<shared, pc, locals, call>>

NextLib ==
    \/ LibCompress
    \/ LibDecompress
    \/ LibHash
    \/ LibPrepIssue
    \/ LibPrepPullRequest

\* One call of a library function on arguments drawn at the start.
SpecLib == InitLib /\ [][NextLib]_vars

\* ================================================================== claims
InFlightStatus == {"backfilling", "syncing"}

\* Handler instances inside the sync pipeline of repository r.
InFlight(r) == { p \in Procs : pc[p] \in InTry /\ target[p] = r }

\* C1: a sync trigger that arrives while the repository is backfilling or
\* syncing, that is, while its status says so or a sync of it is in flight
\* (which is what the two statuses record), starts nothing: the handler does
\* not enter the pipeline.
C1_TriggerWhileInFlightIsNoOp ==
    [][\A p \in Procs, r \in Repos :
          ( /\ pc[p] \in Free
            /\ rec[r] # NoRec
            /\ \/ rec[r].status \in InFlightStatus
               \/ InFlight(r) # {} )
          => ~(pc'[p] \in InTry /\ target'[p] = r)]_vars

\* C2: at most one sync pipeline is in flight per repository at any time.
C2_AtMostOneInFlight ==
    \A r \in Repos : Cardinality(InFlight(r)) <= 1

AllowedEdges ==
    { <<"pending", "backfilling">>, <<"backfilling", "active">>,
      <<"backfilling", "error">>, <<"active", "syncing">>,
      <<"syncing", "active">>, <<"syncing", "error">>,
      <<"error", "syncing">>, <<"error", "backfilling">> }

C4_StatusRecordedBeforeFetch ==
    \A p \in Procs :
        pc[p] \in FetchBegun => rec[target[p]].status \in InFlightStatus

\* C5: the step that ends a sync all of whose stages succeeded leaves the
\* row active, with lastSyncAt the time of the sync and no error message.
C5_SuccessRecord ==
    [][\A p \in Procs :
          (pc[p] = "update" /\ pc'[p] = "done")
          => /\ rec'[target[p]].status = "active"
             /\ rec'[target[p]].lastSyncAt = now
             /\ rec'[target[p]].errorMessage = Null]_vars

\* C6: the step in which a sync fails leaves the row in error with an
\* error message.
C6_FailureRecord ==
    [][\A p \in Procs :
          (pc[p] \in InTry /\ pc'[p] = "failed")
          => /\ rec'[target[p]].status = "error"
             /\ rec'[target[p]].errorMessage # Null]_vars

\* C7: a sync that fails writes no lastSyncAt: the step in which it fails
\* leaves lastSyncAt as it is, and the only step that changes the lastSyncAt
\* of a row is the metadata update ending a sync whose every stage succeeded.
C7_FailureKeepsWatermark ==
    [][\A r \in Repos :
          /\ \A p \in Procs :
                (pc[p] \in InTry /\ target[p] = r /\ pc'[p] = "failed")
                => rec'[r] = rec[r]
          /\ (rec[r] # NoRec /\ rec'[r].lastSyncAt # rec[r].lastSyncAt)
                => \E p \in Procs :
                      pc[p] = "update" /\ target[p] = r /\ pc'[p] = "done"]_vars

\* A sync has failed on a row that an earlier sync had stamped.
C7_Witness ==
    /\ \E p \in Procs : pc[p] = "failed"
    /\ \E r \in Repos : rec[r] # NoRec /\ rec[r].lastSyncAt > 0

SubmittedTexts(p) ==
    UNION { { batches[p][b][k] : k \in 1..Len(batches[p][b]) } : b \in 1..Len(batches[p]) }

\* C9: once the object is merged, no item that had an entry and was fetched
\* closed (or merged) has an entry in it, and its text was not embedded.
C9_ClosedItemsDeleted ==
    \A p \in Procs :
        vectorObject[p] # NoObject =>
            /\ \A k \in 1..Len(allIssues[p]) :
                  ( /\ allIssues[p][k].state # "OPEN"
                    /\ allIssues[p][k].id \in DOMAIN mergedIssues[p] )
                  => /\ allIssues[p][k].id \notin DOMAIN vectorObject[p].issues
                     /\ prepIssue(allIssues[p][k]) \notin SubmittedTexts(p)
            /\ \A k \in 1..Len(allPRs[p]) :
                  ( /\ allPRs[p][k].state # "OPEN"
                    /\ allPRs[p][k].id \in DOMAIN mergedPullRequests[p] )
                  => /\ allPRs[p][k].id \notin DOMAIN vectorObject[p].pullRequests
                     /\ prepPullRequest(allPRs[p][k]) \notin SubmittedTexts(p)

\* The object stored for r.
StoredObject(r) == JsonParse(decompressGzip(store[r]))

\* C10: every entry of a stored object has state "open".
C10_StoredEntriesOpen ==
    \A r \in Repos :
        store[r] # NoBlob =>
            /\ \A id \in DOMAIN StoredObject(r).issues :
                  StoredObject(r).issues[id].state = "open"
            /\ \A id \in DOMAIN StoredObject(r).pullRequests :
                  StoredObject(r).pullRequests[id].state = "open"

\* C11: once the object is merged, every entry of the previous object whose
\* id is not among the fetched items is in it with the same id, number,
\* state, vector and hash.
C11_UnlistedEntriesKept ==
    \A p \in Procs :
        vectorObject[p] # NoObject =>
            /\ \A id \in (DOMAIN mergedIssues[p]) \ Ids(allIssues[p]) :
                  /\ id \in DOMAIN vectorObject[p].issues
                  /\ vectorObject[p].issues[id] = mergedIssues[p][id]
            /\ \A id \in (DOMAIN mergedPullRequests[p]) \ Ids(allPRs[p]) :
                  /\ id \in DOMAIN vectorObject[p].pullRequests
                  /\ vectorObject[p].pullRequests[id] = mergedPullRequests[p][id]

\* A merge over a fetch that lists one issue and one pull request and leaves
\* out another of each that the previous object holds.
C11_Witness ==
    \E p \in Procs :
        /\ vectorObject[p] # NoObject
        /\ allIssues[p] # <<>>
        /\ allPRs[p] # <<>>
        /\ (DOMAIN mergedIssues[p]) \ Ids(allIssues[p]) # {}
        /\ (DOMAIN mergedPullRequests[p]) \ Ids(allPRs[p]) # {}

\* Pull request k of handler p's fetch is open and hashes to the hash its
\* entry in the previous object carries.
UnchangedOpenPr(p, k) ==
    /\ allPRs[p][k].state = "OPEN"
    /\ allPRs[p][k].id \in DOMAIN mergedPullRequests[p]
    /\ mergedPullRequests[p][allPRs[p][k].id].hash = hashPr(allPRs[p][k])

\* C12: once the object is merged, a fetched open pull request whose hash
\* equals the stored hash had no text submitted to the embedding provider,
\* and its entry has the vector and hash it had and state "open".
C12_UnchangedOpenPrKept ==
    \A p \in Procs :
        vectorObject[p] # NoObject =>
            \A k \in 1..Len(allPRs[p]) :
                UnchangedOpenPr(p, k) =>
                    LET pr == allPRs[p][k]
                        was == mergedPullRequests[p][pr.id]
                        is == vectorObject[p].pullRequests[pr.id]
                    IN /\ prepPullRequest(pr) \notin SubmittedTexts(p)
                       /\ is.vector = was.vector
                       /\ is.hash = was.hash
                       /\ is.state = "open"

\* A merge over a fetch with an unchanged open pull request, next to another
\* pull request whose text was submitted.
C12_Witness ==
    \E p \in Procs :
        /\ vectorObject[p] # NoObject
        /\ \E k \in 1..Len(allPRs[p]) : UnchangedOpenPr(p, k)
        /\ \E k \in 1..Len(allPRs[p]) : prepPullRequest(allPRs[p][k]) \in SubmittedTexts(p)

\* The number of texts in a log of embedding calls.
RECURSIVE TextCount(_)
TextCount(log) == IF Len(log) = 0 THEN 0 ELSE Len(Head(log)) + TextCount(Tail(log))

\* C13: once the object is merged, the texts submitted to the embedding
\* provider are as many as the open issues of the fetch plus its open pull
\* requests that have no entry or a different hash in the previous object.
C13_SubmittedTextCount ==
    \A p \in Procs :
        vectorObject[p] # NoObject =>
            TextCount(batches[p]) =
                Cardinality({ k \in 1..Len(allIssues[p]) : allIssues[p][k].state = "OPEN" })
                + Cardinality({ k \in 1..Len(allPRs[p]) :
                      /\ allPRs[p][k].state = "OPEN"
                      /\ \/ allPRs[p][k].id \notin DOMAIN mergedPullRequests[p]
                         \/ mergedPullRequests[p][allPRs[p][k].id].hash
                                # hashPr(allPRs[p][k]) })

\* C14: a sync calls the embedding provider at most once.
C14_OneEmbeddingCall ==
    \A p \in Procs : Len(batches[p]) <= 1

\* The vector the embedding provider returns for a text.
VectorOf(text) == generateEmbeddings(<<text>>)[1]

\* C15: once the object is merged, the entry of every item whose text was
\* submitted in this sync carries the vector the embedding provider returned
\* for that item's own text.
C15_VectorOfOwnText ==
    \A p \in Procs :
        vectorObject[p] # NoObject =>
            /\ \A k \in 1..Len(allIssues[p]) :
                  prepIssue(allIssues[p][k]) \in SubmittedTexts(p)
                  => vectorObject[p].issues[allIssues[p][k].id].vector
                        = VectorOf(prepIssue(allIssues[p][k]))
            /\ \A k \in 1..Len(allPRs[p]) :
                  prepPullRequest(allPRs[p][k]) \in SubmittedTexts(p)
                  => vectorObject[p].pullRequests[allPRs[p][k].id].vector
                        = VectorOf(prepPullRequest(allPRs[p][k]))

\* A merge after a sync that submitted the texts of two issues and of two
\* pull requests.
C15_Witness ==
    \E p \in Procs :
        /\ vectorObject[p] # NoObject
        /\ Len(batches[p]) = 2
        /\ Len(batches[p][1]) = 2
        /\ Len(batches[p][2]) = 2
        /\ Len(allIssues[p]) = 2
        /\ Len(allPRs[p]) = 2

\* The object a sync at time t builds from a stored blob and a fetch result.
SyncResult(fullRepoName, t, blob, issues, prs) ==
    BuildVectorObject(fullRepoName, t, ExistingIssues(blob), ExistingPullRequests(blob),
                      issues, prs,
                      generateEmbeddings(IssueTexts(issues)),
                      generateEmbeddings(PrTexts(prs, ExistingPullRequests(blob))))

\* C16: a second sync over the blob of a merged object and the same fetch
\* result builds an object with the same repo, issues and pullRequests,
\* submits no pull request text, and submits the texts of the open issues.
C16_SecondSyncSame ==
    \A p \in Procs :
        vectorObject[p] # NoObject =>
            LET firstObject == vectorObject[p]
                blob == compressGzip(JsonStringify(firstObject))
                secondObject == SyncResult(target[p], now + 1, blob, allIssues[p], allPRs[p])
            IN /\ secondObject.repo = firstObject.repo
               /\ secondObject.issues = firstObject.issues
               /\ secondObject.pullRequests = firstObject.pullRequests
               /\ PrTexts(allPRs[p], ExistingPullRequests(blob)) = <<>>
               /\ Len(IssueTexts(allIssues[p]))
                     = Cardinality({ k \in 1..Len(allIssues[p]) :
                                        allIssues[p][k].state = "OPEN" })

\* A merge after a sync that fetched an open issue and embedded a pull
\* request, over a previous object that was not empty.
C16_Witness ==
    \E p \in Procs :
        /\ vectorObject[p] # NoObject
        /\ \E k \in 1..Len(allIssues[p]) : allIssues[p][k].state = "OPEN"
        /\ PrTexts(allPRs[p], mergedPullRequests[p]) # <<>>
        /\ DOMAIN mergedPullRequests[p] # {}
        /\ DOMAIN mergedIssues[p] # {}

\* The items of the end-to-end scenarios: issue #1 and pull request #10 with
\* files a.ts and b.ts.
Issue1(state) ==
    [id |-> "I_1", number |-> 1, title |-> "t", bodyText |-> "b", state |-> state]

Pr10(state) ==
    [id |-> "PR_10", number |-> 10, title |-> "t", bodyText |-> "b",
     state |-> state, files |-> <<"a.ts", "b.ts">>]

\* Handler p runs the backfill scenario: the row it selected was never
\* synced, no object was stored, and the fetch returned open issue #1 and
\* open pull request #10.
BackfillScenario(p) ==
    /\ since[p] = 0
    /\ mergedIssues[p] = EmptyMap
    /\ mergedPullRequests[p] = EmptyMap
    /\ allIssues[p] = <<Issue1("OPEN")>>
    /\ allPRs[p] = <<Pr10("OPEN")>>

\* The object the backfill scenario is to store, up to syncedAt.
BackfillStored(obj) ==
    /\ DOMAIN obj.issues = {"I_1"}
    /\ obj.issues["I_1"].number = 1
    /\ obj.issues["I_1"].state = "open"
    /\ DOMAIN obj.pullRequests = {"PR_10"}
    /\ obj.pullRequests["PR_10"].number = 10
    /\ obj.pullRequests["PR_10"].state = "open"
    /\ obj.pullRequests["PR_10"].hash = hashPr(Pr10("OPEN"))

\* C17: the step that ends the backfill scenario follows one embedding call
\* of two texts and a stored object holding exactly issue #1 and pull request
\* #10, open, the latter with its hash; it takes the row from backfilling to
\* active and sets lastSyncAt to the time of the sync.
C17_BackfillEndToEnd ==
    [][\A p \in Procs :
          (pc[p] = "update" /\ pc'[p] = "done" /\ BackfillScenario(p))
          => /\ Len(batches[p]) = 1
             /\ Len(batches[p][1]) = 2
             /\ BackfillStored(StoredObject(target[p]))
             /\ rec[target[p]].status = "backfilling"
             /\ rec'[target[p]].status = "active"
             /\ rec'[target[p]].lastSyncAt = now]_vars

\* Handler p runs the incremental scenario: the object it read holds open
\* issue #1 and open pull request #10, and the fetch returned issue #1 closed
\* and pull request #10 merged with the content it had.
IncrementalScenario(p) ==
    /\ since[p] > 0
    /\ DOMAIN mergedIssues[p] = {"I_1"}
    /\ mergedIssues[p]["I_1"].state = "open"
    /\ DOMAIN mergedPullRequests[p] = {"PR_10"}
    /\ mergedPullRequests[p]["PR_10"].state = "open"
    /\ mergedPullRequests[p]["PR_10"].hash = hashPr(Pr10("MERGED"))
    /\ allIssues[p] = <<Issue1("CLOSED")>>
    /\ allPRs[p] = <<Pr10("MERGED")>>

\* C18: the incremental scenario stores an object with no issue and no pull
\* request, and calls the embedding provider not once.
C18_IncrementalEndToEnd ==
    \A p \in Procs :
        (pc[p] = "update" /\ IncrementalScenario(p))
        => /\ StoredObject(target[p]).issues = EmptyMap
           /\ StoredObject(target[p]).pullRequests = EmptyMap
           /\ batches[p] = <<>>

\* C19: the stored object changes only in the store write of a sync, and
\* then to the blob of the object that sync merged from the existing maps and
\* all the pages it fetched; the step in which a sync fails or is killed
\* leaves every stored object as it is.
C19_StoreWrittenWhole ==
    [][\A r \in Repos :
          /\ store'[r] # store[r]
                => \E p \in Procs :
                      /\ pc[p] = "put" /\ pc'[p] = "update" /\ target[p] = r
                      /\ store'[r] = compressGzip(JsonStringify(vectorObject[p]))
                      /\ vectorObject[p] =
                            BuildVectorObject(r, vectorObject[p].syncedAt,
                                mergedIssues[p], mergedPullRequests[p],
                                allIssues[p], allPRs[p], issueEmbeddings[p],
                                generateEmbeddings(
                                    PrTexts(allPRs[p], mergedPullRequests[p])))
          /\ \A p \in Procs :
                (pc[p] \in InTry /\ pc'[p] \in {"failed", "crashed"})
                => store'[r] = store[r]]_vars

\* One handler served two syncs: the first stored an object built at time 1
\* and stamped the row at time 2; the second, begun at time 2, failed, and
\* the stored object is still the one built at time 1.
C19_Witness ==
    /\ pc["p1"] = "failed"
    /\ pc["p2"] = "idle"
    /\ nsync = 2
    /\ now = 2
    /\ rec["acme/widgets"] # NoRec
    /\ rec["acme/widgets"].lastSyncAt = 2
    /\ store["acme/widgets"] # NoBlob
    /\ StoredObject("acme/widgets").syncedAt = 1
    /\ StoredObject("acme/widgets").issues # EmptyMap

\* The states an item of each connection can be in.
StatesOf(connection) ==
    IF connection = "issues" THEN {"OPEN", "CLOSED"} ELSE {"OPEN", "CLOSED", "MERGED"}

\* C20: every request of a sync that found lastSyncAt = 0 asks for open
\* items and gives no since; every request of a sync that found
\* lastSyncAt > 0 asks for the items of every state updated since lastSyncAt.
C20_FetchModeFollowsWatermark ==
    \A p \in Procs :
        request[p] # NoRequest =>
            IF since[p] = 0
            THEN /\ request[p].states = {"OPEN"}
                 /\ request[p].since = <<>>
            ELSE /\ request[p].states = StatesOf(request[p].connection)
                 /\ request[p].since = SinceOf(since[p])

\* C21: the text that comes back from decompressGzip(compressGzip(s)) is s.
C21_GzipRoundTrip ==
    (call.fn = "compressGzip" /\ result.stage = "decompressed")
    => result.text = call.text

\* The two pull requests of a hashPr call agree in title, body, file list.
SameTitle == call.a.title = call.b.title
SameBody == call.a.bodyText = call.b.bodyText
SameFiles == call.a.files = call.b.files

\* No path of either file list holds a newline.
PlainFiles ==
    /\ \A k \in 1..Len(call.a.files) : call.a.files[k] \in PlainPaths
    /\ \A k \in 1..Len(call.b.files) : call.b.files[k] \in PlainPaths

\* C22 as stated: equal title, body and file list give equal hashes; a
\* different title alone, a different body alone, or a different file list
\* alone (other paths, or the same paths in another order) gives a different
\* hash.
C22_HashSensitive ==
    (call.fn = "hashPr" /\ result.stage = "hashed") =>
        /\ (SameTitle /\ SameBody /\ SameFiles) => result.a = result.b
        /\ (~SameTitle /\ SameBody /\ SameFiles) => result.a # result.b
        /\ (SameTitle /\ ~SameBody /\ SameFiles) => result.a # result.b
        /\ (SameTitle /\ SameBody /\ ~SameFiles) => result.a # result.b

\* C22 amended: as stated, the file lists being lists of paths that hold no
\* newline.
C22_HashSensitivePlainPaths ==
    (call.fn = "hashPr" /\ result.stage = "hashed") =>
        /\ (SameTitle /\ SameBody /\ SameFiles) => result.a = result.b
        /\ (~SameTitle /\ SameBody /\ SameFiles) => result.a # result.b
        /\ (SameTitle /\ ~SameBody /\ SameFiles) => result.a # result.b
        /\ (SameTitle /\ SameBody /\ ~SameFiles /\ PlainFiles) => result.a # result.b

\* Two pull requests that differ in the order of their two files alone have
\* been hashed.
C22_Witness ==
    /\ call.fn = "hashPr"
    /\ result.stage = "hashed"
    /\ SameTitle /\ SameBody /\ PlainFiles
    /\ Len(call.a.files) = 2
    /\ call.a.files[1] # call.a.files[2]
    /\ call.b.files = <<call.a.files[2], call.a.files[1]>>
    /\ result.a # result.b

\* C23: two pull requests with the same title, body and file list have the
\* same hash, whatever their id, number and state.
C23_HashOfContentOnly ==
    (call.fn = "hashPr" /\ result.stage = "hashed") =>
        ( ( /\ SameTitle /\ SameBody /\ SameFiles
            /\ \/ call.a.id # call.b.id
               \/ call.a.number # call.b.number
               \/ call.a.state # call.b.state )
          => result.a = result.b )

\* The same content has been hashed as an open pull request and as a merged
\* one of another id and number.
C23_Witness ==
    /\ call.fn = "hashPr"
    /\ result.stage = "hashed"
    /\ SameTitle /\ SameBody /\ SameFiles
    /\ call.a.state = "OPEN" /\ call.b.state = "MERGED"
    /\ call.a.id # call.b.id /\ call.a.number # call.b.number
    /\ result.a = result.b

\* At most three paths, one to a line.
Lines(files) ==
    IF Len(files) = 0 THEN ""
    ELSE IF Len(files) = 1 THEN files[1]
    ELSE IF Len(files) = 2 THEN files[1] \o "\n" \o files[2]
    ELSE files[1] \o "\n" \o files[2] \o "\n" \o files[3]

\* C24: the text of an issue is its title, two newlines, its body; the text
\* of a pull request is its title, two newlines, its body, two newlines, its
\* file paths in order, one to a line: also when the body or the file list
\* is empty, and as the tests of the normaliser expect.
C24_NormalisedText ==
    result.stage = "prepared" =>
        /\ call.fn = "prepIssue" =>
              /\ result.text = call.item.title \o "\n\n" \o call.item.bodyText
              /\ \A e \in PrepIssueTests : e.item = call.item => result.text = e.text
        /\ call.fn = "prepPullRequest" =>
              /\ result.text = call.item.title \o "\n\n" \o call.item.bodyText
                                   \o "\n\n" \o Lines(call.item.files)
              /\ \A e \in PrepPullRequestTests :
                    e.item = call.item => result.text = e.text

\* A pull request with an empty body and no file has been normalised.
C24_Witness ==
    /\ call.fn = "prepPullRequest"
    /\ result.stage = "prepared"
    /\ call.item.bodyText = ""
    /\ call.item.files = <<>>
    /\ result.text = call.item.title \o "\n\n\n\n"

\* Handler p's fetch holds no open issue and no open pull request that is
\* new or has a different hash.
NothingToEmbed(p) ==
    /\ \A k \in 1..Len(allIssues[p]) : allIssues[p][k].state # "OPEN"
    /\ \A k \in 1..Len(allPRs[p]) :
          \/ allPRs[p][k].state # "OPEN"
          \/ /\ allPRs[p][k].id \in DOMAIN mergedPullRequests[p]
             /\ mergedPullRequests[p][allPRs[p][k].id].hash = hashPr(allPRs[p][k])

\* C25: no call of the embedding provider holds an empty list, and a sync
\* with nothing to embed has made no call once its object is merged.
C25_NoCallWithoutText ==
    \A p \in Procs :
        /\ \A b \in 1..Len(batches[p]) : Len(batches[p][b]) > 0
        /\ (vectorObject[p] # NoObject /\ NothingToEmbed(p)) => batches[p] = <<>>

\* C26: no state of a row is terminal: a trigger on a row that exists, in
\* whatever state that row is, enters the pipeline, and the step that ends a
\* pipeline all of whose stages succeeded leaves the row active.
C26_NoTerminalState ==
    [][/\ \A r \in Repos :
             (nsync' # nsync /\ rec[r] # NoRec)
             => \E p \in Procs : pc[p] \in Free /\ pc'[p] = "get" /\ target'[p] = r
       /\ \A p \in Procs :
             (pc[p] = "update" /\ pc'[p] = "done" /\ rec[target[p]] # NoRec)
             => rec'[target[p]].status = "active"]_vars

\* C27: a handler working on one repository leaves every other repository's
\* row and stored object as they are: a step that changes the row or the
\* object of r is a step of a handler whose target is r, and what a sync
\* reads from the store is the object of its own repository.
C27_OtherRepositoryUntouched ==
    [][/\ \A r \in Repos :
             (rec'[r] # rec[r] \/ store'[r] # store[r])
             => \E p \in Procs : target[p] = r /\ pc'[p] # pc[p]
       /\ \A p \in Procs :
             (pc[p] = "get" /\ pc'[p] = "issues")
             => /\ mergedIssues'[p] = ExistingIssues(store[target[p]])
                /\ mergedPullRequests'[p] = ExistingPullRequests(store[target[p]])]_vars

\* A sync of acme/gadgets has stored its object while acme/widgets holds a
\* row and an object of another sync.
C27_Witness ==
    /\ \E p \in Procs : pc[p] = "update" /\ target[p] = "acme/gadgets"
    /\ rec["acme/widgets"] # NoRec
    /\ store["acme/widgets"] # NoBlob
    /\ store["acme/gadgets"] # NoBlob
    /\ store["acme/gadgets"] # store["acme/widgets"]

\* A text of the form github.com/owner/repo, whatever stands before the host.
IsRepositoryUrl(url) ==
    /\ url.host = "github.com"
    /\ Len(url.segs) = 2
    /\ \A k \in 1..2 : url.segs[k] \in NameTexts

\* A text of the form owner/repo.
IsShorthand(url) ==
    /\ url.host = "" /\ url.prefix = "" /\ url.slash = ""
    /\ Len(url.segs) = 2
    /\ \A k \in 1..2 : url.segs[k] \in NameTexts

Malformed(url) == ~IsRepositoryUrl(url) /\ ~IsShorthand(url)

\* C28: the step that takes a submission whose repoUrl is of neither form
\* answers with the rejection and nothing else: the table and the store are
\* as before, no sync is counted, and the handler holds no repository and has
\* sent no request to the source.
C28_MalformedRejected ==
    [][\A p \in Procs :
          (/\ repoUrl'[p] # NoUrl
           /\ Malformed(repoUrl'[p])
           /\ (repoUrl'[p] # repoUrl[p] \/ pc'[p] # pc[p]))
          => /\ pc'[p] = "rejected"
             /\ rec' = rec /\ store' = store /\ nsync' = nsync
             /\ target'[p] = Null
             /\ request'[p] = NoRequest]_vars

\* A URL of another host has been rejected while the repository it would have
\* named holds a row and a stored object.
C28_Witness ==
    /\ pc["p1"] = "rejected"
    /\ repoUrl["p1"] = Url("https://", "gitlab.com", <<"acme", "widgets">>, "")
    /\ rec["acme/widgets"] # NoRec
    /\ store["acme/widgets"] # NoBlob

\* C29: the step in which a sync stores its object leaves, for every issue
\* the sync fetched open, the text of that issue among those handed to the
\* embedding provider in this sync, and in the stored object an entry of the
\* fetched id and number, state "open", and the vector returned for that
\* text, whatever the object held before.
C29_OpenIssueReembedded ==
    [][\A p \in Procs :
          (pc[p] = "put" /\ pc'[p] = "update") =>
              \A k \in 1..Len(allIssues[p]) :
                  IsOpen(allIssues[p][k]) =>
                      /\ prepIssue(allIssues[p][k]) \in SubmittedTexts(p)
                      /\ allIssues[p][k].id
                            \in DOMAIN JsonParse(decompressGzip(store'[target[p]])).issues
                      /\ JsonParse(decompressGzip(store'[target[p]])).issues[allIssues[p][k].id]
                            = [id |-> allIssues[p][k].id,
                               number |-> allIssues[p][k].number,
                               state |-> "open",
                               vector |-> VectorOf(prepIssue(allIssues[p][k]))]]_vars

\* A sync has stored its object after fetching, open, an issue whose entry in
\* the previous object carried the vector of another text.
C29_Witness ==
    \E p \in Procs :
        /\ pc[p] = "update"
        /\ \E k \in 1..Len(allIssues[p]) :
              /\ IsOpen(allIssues[p][k])
              /\ allIssues[p][k].id \in DOMAIN mergedIssues[p]
              /\ mergedIssues[p][allIssues[p][k].id].vector
                    # VectorOf(prepIssue(allIssues[p][k]))

\* A pass of a fetch loop of handler p: a step from the loop's stage to the
\* same stage or to the one after the loop.  The request of the pass asks the
\* loop's connection for 100 nodes, after nothing on the first pass and after
\* the endCursor of the previous answer on a later one; the loop goes on
\* exactly when the answer says hasNextPage; and the items collected are
\* those collected before, none on the first pass, followed by the nodes of
\* the answer.
FetchPass(p, stage, exit, connection, items, itemsAfter) ==
    (/\ pc[p] = stage
     /\ pc'[p] \in {stage, exit}
     /\ \/ pc'[p] = exit
        \/ request'[p] # request[p]
        \/ response'[p] # response[p]
        \/ itemsAfter # items)
    => LET firstPass == request[p] = NoRequest \/ request[p].connection # connection IN
       /\ request'[p] # NoRequest /\ response'[p] # NoResponse
       /\ request'[p].connection = connection
       /\ request'[p].first = 100
       /\ request'[p].after =
             IF firstPass THEN Null ELSE response[p].pageInfo.endCursor
       /\ (pc'[p] = stage) = response'[p].pageInfo.hasNextPage
       /\ itemsAfter = (IF firstPass THEN <<>> ELSE items) \o response'[p].nodes

\* C30: every pass of the issues loop and of the pull requests loop is as
\* above, so that each loop ends at the first answer without a next page
\* holding the nodes of all its answers in order; and a loop under way comes
\* to an end.
C30_FetchLoops ==
    /\ [][\A p \in Procs :
             /\ FetchPass(p, "issues", "prs", "issues", allIssues[p], allIssues'[p])
             /\ FetchPass(p, "prs", "embedIssues", "pullRequests", allPRs[p], allPRs'[p])]_vars
    /\ \A p \in Procs :
          /\ (pc[p] = "issues") ~> (pc[p] # "issues")
          /\ (pc[p] = "prs") ~> (pc[p] # "prs")

\* Both loops have ended on their second answer, the second request of the
\* pull requests loop having asked for what follows pull request #10.
C30_Witness ==
    /\ pc["p1"] = "embedIssues"
    /\ Len(allIssues["p1"]) = 2
    /\ Len(allPRs["p1"]) = 2
    /\ request["p1"].after = "PR_10"
    /\ ~response["p1"].pageInfo.hasNextPage

\* C31: a row whose status is pending, backfilling, syncing or active has no
\* error message.
C31_MessageOnlyWithError ==
    \A r \in Repos :
        (rec[r] # NoRec /\ rec[r].status \in {"pending", "backfilling", "syncing", "active"})
        => rec[r].errorMessage = Null

\* A sync of a tracked repository has failed, and another has stamped the row.
C31_Witness ==
    /\ \E p \in Procs : pc[p] = "failed"
    /\ rec["acme/widgets"] # NoRec
    /\ rec["acme/widgets"].lastSyncAt > 0
    /\ rec["acme/widgets"].status \in {"pending", "backfilling", "syncing", "active"}

\* C32: a sync's store write loses no entry another sync has written since
\* this sync read the object: an entry of the stored object that was not in
\* the object this sync read, and whose item this sync did not fetch, is in
\* the object this sync stores, as it was.  (Applying the two merges one after
\* the other, in either order, keeps such an entry.)
C32_NoLostUpdate ==
    [][\A p \in Procs :
          (pc[p] = "put" /\ pc'[p] = "update" /\ store[target[p]] # NoBlob) =>
              /\ \A id \in DOMAIN StoredObject(target[p]).issues :
                    (id \notin DOMAIN mergedIssues[p] /\ id \notin Ids(allIssues[p]))
                    => /\ id \in DOMAIN JsonParse(decompressGzip(store'[target[p]])).issues
                       /\ JsonParse(decompressGzip(store'[target[p]])).issues[id]
                             = StoredObject(target[p]).issues[id]
              /\ \A id \in DOMAIN StoredObject(target[p]).pullRequests :
                    (id \notin DOMAIN mergedPullRequests[p] /\ id \notin Ids(allPRs[p]))
                    => /\ id \in DOMAIN
                             JsonParse(decompressGzip(store'[target[p]])).pullRequests
                       /\ JsonParse(decompressGzip(store'[target[p]])).pullRequests[id]
                             = StoredObject(target[p]).pullRequests[id]]_vars

\* C33: the watermark a sync writes skips no change made after its fetch.  A
\* change made at a clock reading taken after the last page was fetched and
\* before lastSyncAt is written lies at or after the since of the next sync,
\* which is the lastSyncAt written; the syncedAt of the object is such a
\* reading, so the lastSyncAt written is no later than it.
C33_WatermarkSkipsNothing ==
    [][\A p \in Procs :
          (pc[p] = "update" /\ pc'[p] = "done" /\ rec[target[p]] # NoRec)
          => SinceOf(rec'[target[p]].lastSyncAt)
                \in { SinceOf(t) : t \in 1..vectorObject[p].syncedAt }]_vars

\* C34: a row whose lastSyncAt is above 0 has an object under its key, and
\* the step in which a sync fails at its store write, or anywhere before its
\* metadata update has run, leaves lastSyncAt as it is.
C34_WatermarkAfterStore ==
    /\ [](\A r \in Repos :
             (rec[r] # NoRec /\ rec[r].lastSyncAt > 0) => store[objectKey(r)] # NoBlob)
    /\ [][\A p \in Procs :
             (pc[p] \in InTry /\ pc'[p] \in {"failed", "crashed"}
                 /\ rec[target[p]] # NoRec)
             => rec'[target[p]].lastSyncAt = rec[target[p]].lastSyncAt]_vars

\* A sync has failed after a later store write than the one the watermark
\* belongs to: the object is newer than lastSyncAt.
C34_Witness ==
    /\ \E p \in Procs : pc[p] = "failed"
    /\ rec["acme/widgets"] # NoRec
    /\ rec["acme/widgets"].lastSyncAt > 0
    /\ store["acme/widgets"] # NoBlob
    /\ StoredObject("acme/widgets").syncedAt > rec["acme/widgets"].lastSyncAt

\* C35: every pull request entry of a stored object carries the hash and the
\* vector of one and the same content: there is a pull request of its id whose
\* hashPr is the entry's hash and whose text has the entry's vector as its
\* embedding.  And the store write of a sync leaves, for a fetched pull
\* request whose hash equals the hash of the entry the sync read, the hash and
\* the vector of that entry.
C35_HashOfEmbeddedContent ==
    /\ [](\A r \in Repos :
             store[r] # NoBlob =>
                 \A id \in DOMAIN StoredObject(r).pullRequests :
                     \E n \in PullRequestNodes :
                         /\ n.id = id
                         /\ StoredObject(r).pullRequests[id].hash = hashPr(n)
                         /\ StoredObject(r).pullRequests[id].vector
                               = VectorOf(prepPullRequest(n)))
    /\ [][\A p \in Procs :
             (pc[p] = "put" /\ pc'[p] = "update") =>
                 \A k \in 1..Len(allPRs[p]) :
                     (/\ allPRs[p][k].id \in DOMAIN mergedPullRequests[p]
                      /\ mergedPullRequests[p][allPRs[p][k].id].hash = hashPr(allPRs[p][k]))
                     => LET was == mergedPullRequests[p][allPRs[p][k].id]
                            is == JsonParse(decompressGzip(store'[target[p]]))
                                     .pullRequests[allPRs[p][k].id]
                        IN is.hash = was.hash /\ is.vector = was.vector]_vars

\* A sync has stored an entry for pull request #10 under another hash than
\* the entry it read, next to the entry of #11, which it read and fetched
\* unchanged.
C35_Witness ==
    \E p \in Procs :
        /\ pc[p] = "update"
        /\ {"PR_10", "PR_11"} \subseteq DOMAIN mergedPullRequests[p]
        /\ Len(allPRs[p]) = 2
        /\ StoredObject(target[p]).pullRequests["PR_10"].hash
              # mergedPullRequests[p]["PR_10"].hash
        /\ StoredObject(target[p]).pullRequests["PR_11"].hash
              = mergedPullRequests[p]["PR_11"].hash

\* A step of handler p on a submission: it takes one, or runs its insert.
SubmitStep(p) ==
    \/ pc[p] = "insert" /\ pc'[p] # "insert"
    \/ /\ pc[p] \in Free
       /\ pc'[p] \in {"rejected", "returned", "insert"}
       /\ repoUrl'[p] # NoUrl
       /\ (pc'[p] # pc[p] \/ repoUrl'[p] # repoUrl[p])

\* C36: however submissions of one identity interleave, the row of the
\* identity is created once, with status pending, lastSyncAt 0 and no error
\* message, and no step of a submission changes a row that exists; a
\* submission that finds the identity tracked returns the row it found.
C36_OneRecordPerIdentity ==
    [][/\ \A r \in Repos :
             /\ (rec[r] = NoRec /\ rec'[r] # NoRec)
                   => /\ rec'[r].status = "pending"
                      /\ rec'[r].lastSyncAt = 0
                      /\ rec'[r].errorMessage = Null
                      /\ \E p \in Procs : pc[p] = "insert" /\ target[p] = r
             /\ (rec[r] # NoRec /\ \E p \in Procs : SubmitStep(p))
                   => rec'[r] = rec[r]
       /\ \A p \in Procs :
             (/\ pc[p] \in Free
              /\ SubmitStep(p)
              /\ parseGitHubRepoUrl(repoUrl'[p]) # ParseError
              /\ rec[parseGitHubRepoUrl(repoUrl'[p]).fullName] # NoRec)
             => pc'[p] = "returned"]_vars

\* Two submissions of one identity have raced, the insert of one refused by
\* the key; a sync has stamped the row, and a later submission has found it.
C36_Witness ==
    /\ pc["p1"] = "conflict"
    /\ pc["p2"] = "returned"
    /\ rec["acme/widgets"] # NoRec
    /\ rec["acme/widgets"].lastSyncAt > 0

====
